---------------------------- MODULE Spec2Model ----------------------------
(***************************************************************************)
(* Model of testify/plugins/violation_collector.py: the attribution pipe   *)
(* between the test-running child and the tracing parent, the violator     *)
(* cache, the violation store and its aggregation query.                   *)
(*                                                                         *)
(* Strings that travel through the pipe are sequences of one-character     *)
(* strings, so that the 1024-byte read limit, the "#END#" sentinel and the *)
(* ',' field delimiter act on bytes exactly as in the source.              *)
(***************************************************************************)
EXTENDS Integers, Sequences, FiniteSets, TLC

VARIABLES
    store,           \* collector.store: the ViolationStore, once constructed
    fs,              \* paths of the files that exist on disk
    pipe,            \* bytes written to violations_write_fd and not yet read
    ready,           \* the edge-triggered epoll registration has an event pending
    last_violator,   \* ViolationCollector.last_violator, one copy per process
    violations,      \* ViolationCollector.violations (dict violator -> list), parent
    ViolationsTable, \* rows of the 'violations' table, in insertion order
    TestsTable,      \* rows of the 'tests' table, in insertion order
    stderr,          \* what was written to sys.stderr (collect, writeln)
    logged,          \* logging.error messages of the store
    output_verbosity, \* module global set from options.verbosity
    outcome,         \* what the last handler did: return value or exception
    sinceRead,       \* history: violators published since the last read of the pipe
    everPublished,   \* history: set of all violators published so far
    nPublished,      \* history: number of phase-start hooks run
    nEvents,         \* history: number of violation callbacks handled
    write_closed,    \* the child has terminated: its write end of the pipe is closed
    lifecycle        \* position of the host framework in its hook order

vars == <<store, fs, pipe, ready, last_violator, violations, ViolationsTable, TestsTable,
          stderr, logged, output_verbosity, outcome, sinceRead, everPublished, nPublished, nEvents,
          write_closed, lifecycle>>

-----------------------------------------------------------------------------
(* Bounds of the model *)

MaxPublish  == 2     \* phase-start hooks per run
MaxEvents   == 2     \* violation callbacks per run
MaxFailures == 1     \* inserts the backend refuses per run
MaxRows     == 4     \* add_violation calls made on the store directly
LongPad     == 1011  \* a module path whose record (1020 bytes) fits one read
BigPad      == 1021  \* a module path whose record (1030 bytes) exceeds one read
MaxTests    == 1     \* tests of the test case the host framework runs

-----------------------------------------------------------------------------
(* Program constants *)

MAX_VIOLATOR_LINE == 1024

VIOLATOR_DESC_END == <<"#", "E", "N", "D", "#">>

UNDEFINED_VIOLATOR ==
    << <<"U","n","d","e","f","i","n","e","d","T","e","s","t","C","a","s","e">>,
       <<"U","n","d","e","f","i","n","e","d","M","e","t","h","o","d">>,
       <<"U","n","d","e","f","i","n","e","d","P","a","t","h">> >>

VERBOSITY_SILENT  == 0
VERBOSITY_NORMAL  == 1
VERBOSITY_VERBOSE == 2

None == "None"

-----------------------------------------------------------------------------
(* Python string primitives, on sequences of characters *)

Min(S) == CHOOSE x \in S : \A y \in S : x <= y

\* s.find(sub, start): 1-based position of the first occurrence of sub at or
\* after position start, 0 when there is none
FindFrom(s, sub, start) ==
    LET M == {i \in start..(Len(s) - Len(sub) + 1) :
                 /\ s[i] = sub[1]
                 /\ SubSeq(s, i, i + Len(sub) - 1) = sub}
    IN  IF M = {} THEN 0 ELSE Min(M)

\* s.find(sub): Python's 0-based index, -1 when absent
find(s, sub) == FindFrom(s, sub, 1) - 1

startswith(s, prefix) ==
    /\ Len(s) >= Len(prefix)
    /\ SubSeq(s, 1, Len(prefix)) = prefix

RECURSIVE SplitFrom(_, _, _)
SplitFrom(s, sep, start) ==
    LET i == FindFrom(s, sep, start)
    IN  IF i = 0
        THEN << SubSeq(s, start, Len(s)) >>
        ELSE << SubSeq(s, start, i - 1) >> \o SplitFrom(s, sep, i + Len(sep))

\* s.split(sep): leftmost non-overlapping separators, empty segments kept
split(s, sep) == SplitFrom(s, sep, 1)

RECURSIVE join(_, _)
join(sep, parts) ==
    IF Len(parts) = 0 THEN <<>>
    ELSE IF Len(parts) = 1 THEN parts[1]
    ELSE parts[1] \o sep \o join(sep, Tail(parts))

-----------------------------------------------------------------------------
(* Inputs *)

Pad(n) == [i \in 1..n |-> "x"]

\* Test identities (class, method, module) the phase-start hooks are given:
\* a short one, one that shares its class and method but has a long module
\* path, and one whose encoded record is longer than one read.
TestA    == << <<"A">>, <<"m">>, <<"p">> >>
TestLong == << <<"A">>, <<"m">>, Pad(LongPad) >>
TestBig  == << <<"B">>, <<"n">>, Pad(BigPad) >>

TestIdentities == {TestA, TestLong, TestBig}

Operations    == {"open"}
ResolvedPaths == {"/etc/passwd"}

Procs == {"parent", "child"}

-----------------------------------------------------------------------------
(* Store configuration: options and ViolationStore.__init__ *)

SqlitePrefix == <<"s","q","l","i","t","e",":","/","/","/">>
MemoryMark   == <<":","m","e","m","o","r","y",":">>

UrlDefault   == SqlitePrefix \o <<"v","i","o","l","a","t","i","o","n","s",".","s","q","l","i","t","e">>
UrlMemory    == SqlitePrefix \o MemoryMark
UrlBare      == <<"s","q","l","i","t","e",":","/","/">>
UrlAbsolute  == SqlitePrefix \o <<"/","t","m","p","/","v",".","d","b">>
UrlMysql     == <<"m","y","s","q","l",":","/","/","h","/","d","b">>
NoUrl        == <<>>

\* Values of --violation-db-url (the option's default is UrlDefault; NoUrl is
\* an empty value) and of --violation-db-config
DbUrls    == {UrlDefault, UrlMemory, UrlBare, UrlAbsolute, UrlMysql, NoUrl}
DbConfigs == {None, "db.yaml"}

\* yaml.safe_load(open("db.yaml")) passed to SA.engine.url.URL(**...)
ConfigUrl == [type |-> "URL", drivername |-> "mysql", host |-> "h", database |-> "db"]

BuildInfos ==
    { [given |-> FALSE],
      [given |-> TRUE,
       json  |-> [branch |-> "master", revision |-> "r1", submitstamp |-> "t1",
                  buildbot |-> "b7"]] }

AllOptions ==
    [catbox_violations  : BOOLEAN,
     violation_dburl    : DbUrls,
     violation_dbconfig : DbConfigs,
     build_info         : BuildInfos,
     verbosity          : {VERBOSITY_NORMAL, VERBOSITY_VERBOSE}]

Cwd == <<"/","c","w","d","/">>

\* os.path.abspath
abspath(path) == IF startswith(path, <<"/">>) THEN path ELSE Cwd \o path

DbFiles == {abspath(<<"v","i","o","l","a","t","i","o","n","s",".","s","q","l","i","t","e">>),
            <<"/","t","m","p","/","v",".","d","b">>}

\* is_sqlite_filepath(dburl): dburl.startswith("sqlite:///"); a URL object
\* has no startswith
is_sqlite_filepath(dburl) ==
    IF dburl.type = "str"
    THEN [exc |-> None, val |-> startswith(dburl.s, SqlitePrefix)]
    ELSE [exc |-> "AttributeError", val |-> FALSE]

\* sqlite_dbpath(dburl), for a dburl that is an sqlite file path
sqlite_dbpath(dburl) == abspath(SubSeq(dburl.s, Len(SqlitePrefix) + 1, Len(dburl.s)))

\* cleandict(dictionary, allowed_keys)
cleandict(dictionary, allowed_keys) ==
    [k \in (DOMAIN dictionary) \cap allowed_keys |-> dictionary[k]]

NoStore == [constructed |-> FALSE]

\* ViolationStore.connect(): create the engine, connect, create the tables.
\* Connecting to an sqlite file creates the file.
connect(dburl, files) ==
    LET sqlite == is_sqlite_filepath(dburl).val
    IN  [engine  |-> dburl,
         pragmas |-> IF sqlite THEN {"journal_mode = MEMORY"} ELSE {},
         tables  |-> {"violations", "tests"},
         fs      |-> IF sqlite THEN files \cup {sqlite_dbpath(dburl)} ELSE files]

\* ViolationStore.__init__(options) on a disk holding `files`: the exception it
\* raises or the store it builds, and the files afterwards
ViolationStoreInit(options, files) ==
    LET failed(e) == [exc |-> e, store |-> NoStore, fs |-> files]
        dburl == IF options.violation_dburl # NoUrl
                 THEN [type |-> "str", s |-> options.violation_dburl]
                 ELSE ConfigUrl
        inf   == IF options.build_info.given
                 THEN cleandict(options.build_info.json,
                                {"branch", "revision", "submitstamp"})
                 ELSE [branch |-> "", revision |-> "", submitstamp |-> "time"]
        isf   == is_sqlite_filepath(dburl)
    IN  IF options.violation_dburl = NoUrl /\ options.violation_dbconfig = None
        THEN failed("TypeError")            \* open(None)
        ELSE IF isf.exc # None
        THEN failed(isf.exc)
        ELSE IF isf.val /\ find(dburl.s, MemoryMark) > -1
        THEN failed("ValueError")
        ELSE LET kept == IF isf.val THEN files \ {sqlite_dbpath(dburl)} ELSE files
                 c    == connect(dburl, kept)
             IN  [exc   |-> None,
                  store |-> [constructed |-> TRUE, options |-> options, dburl |-> dburl,
                             info |-> inf, engine |-> c.engine, pragmas |-> c.pragmas,
                             tables |-> c.tables,
                             unlinked |-> files \ kept],
                  fs    |-> c.fs]

DefaultOptions ==
    [catbox_violations |-> TRUE, violation_dburl |-> UrlDefault,
     violation_dbconfig |-> None, build_info |-> [given |-> FALSE],
     verbosity |-> VERBOSITY_NORMAL]

-----------------------------------------------------------------------------
(* ViolationStore: the tables and the two tolerant inserts *)

\* self.info
info == store.info

ViolationsColumns ==
    {"branch", "revision", "submitstamp", "module", "class_name",
     "method_name", "syscall", "syscall_args"}

TestsColumns ==
    {"branch", "revision", "submitstamp", "module", "class_name", "method_name"}

\* dict.update(self.info)
update(d, i) == [k \in (DOMAIN d) \cup (DOMAIN i) |-> IF k \in DOMAIN i THEN i[k] ELSE d[k]]

\* The row an insert stores: the parameters that name a column of the table
Row(params, columns) == [k \in (DOMAIN params) \cap columns |-> params[k]]

\* Mutant of add_test: no try/except around the insert
add_test_unguarded(testinfo, accepted) ==
    IF accepted
    THEN [exc   |-> None,
          trows |-> Append(TestsTable, Row(update(testinfo, info), TestsColumns)),
          log   |-> logged]
    ELSE [exc   |-> "OperationalError",
          trows |-> TestsTable,
          log   |-> logged]

\* add_test: accepted says whether conn.execute succeeded; a failure is
\* logged and swallowed (exc is the exception that leaves the method)
add_test(testinfo, accepted) ==
    IF accepted
    THEN [exc   |-> None,
          trows |-> Append(TestsTable, Row(update(testinfo, info), TestsColumns)),
          log   |-> logged]
    ELSE [exc   |-> None,
          trows |-> TestsTable,
          log   |-> Append(logged, "Exception inserting testinfo")]

\* add_violation: same tolerance
add_violation(violation, accepted) ==
    IF accepted
    THEN [exc   |-> None,
          vrows |-> Append(ViolationsTable, Row(update(violation, info), ViolationsColumns)),
          log   |-> logged]
    ELSE [exc   |-> None,
          vrows |-> ViolationsTable,
          log   |-> Append(logged, "Exception inserting violations")]

\* The GROUP BY key of violation_counts
GroupKey(row) == <<row.class_name, row.method_name, row.syscall>>

Groups(rows) == {GroupKey(rows[i]) : i \in DOMAIN rows}

\* Mutant of CountOf: counts the rows of the syscall, not of the group
CountOfSyscall(rows, key) == Cardinality({i \in DOMAIN rows : rows[i].syscall = key[3]})

\* count(syscall) of one group (the column is NOT NULL)
CountOf(rows, key) == Cardinality({i \in DOMAIN rows : GroupKey(rows[i]) = key})

\* One result row per group, the groups taken in the order `order`
RECURSIVE Grouped(_, _)
Grouped(rows, order) ==
    IF order = <<>> THEN <<>>
    ELSE << <<Head(order)[1], Head(order)[2], Head(order)[3], CountOf(rows, Head(order))>> >>
         \o Grouped(rows, Tail(order))

\* Mutant of InsertDesc: ORDER BY count without DESC
RECURSIVE InsertAsc(_, _)
InsertAsc(list, g) ==
    IF list = <<>> THEN <<g>>
    ELSE IF Head(list)[4] <= g[4]
         THEN <<Head(list)>> \o InsertAsc(Tail(list), g)
         ELSE <<g>> \o list

\* Insert result row g into list, which is ordered by count descending
RECURSIVE InsertDesc(_, _)
InsertDesc(list, g) ==
    IF list = <<>> THEN <<g>>
    ELSE IF Head(list)[4] >= g[4]
         THEN <<Head(list)>> \o InsertDesc(Tail(list), g)
         ELSE <<g>> \o list

\* ORDER BY count DESC
RECURSIVE OrderByCountDesc(_)
OrderByCountDesc(list) ==
    IF list = <<>> THEN <<>>
    ELSE InsertDesc(OrderByCountDesc(SubSeq(list, 1, Len(list) - 1)), list[Len(list)])

\* The orders in which the backend may produce the groups before sorting
GroupOrders(rows) ==
    LET G == Groups(rows)
    IN  {f \in [1..Cardinality(G) -> G] : \A i, j \in DOMAIN f : f[i] = f[j] => i = j}

\* violation_counts(): SELECT class_name, method_name, syscall, count(syscall)
\* GROUP BY class_name, method_name, syscall ORDER BY count DESC, for the
\* backend's group order `order`
violation_counts(rows, order) == OrderByCountDesc(Grouped(rows, order))

-----------------------------------------------------------------------------
(* ViolationCollector *)

\* writeln(msg, verbosity): the output stream (sys.stderr) after the call.
\* "verbosity or output_verbosity": an omitted (None) verbosity and
\* VERBOSITY_SILENT (0) are both falsy, so callers that omit it pass 0 here.
writeln(out, msg, verbosity) ==
    LET v == IF verbosity = 0 THEN output_verbosity ELSE verbosity
    IN  IF v <= output_verbosity THEN Append(out, msg) ELSE out

\* data.split(VIOLATOR_DESC_END)[-2] and the tuple of its ','-separated
\* fields; IndexError when there are fewer than two segments
SecondToLast(parts) ==
    IF Len(parts) < 2
    THEN [exc |-> "IndexError", val |-> <<>>]
    ELSE [exc |-> None, val |-> split(parts[Len(parts) - 1], <<",">>)]

\* _get_last_violator(data)
_get_last_violator(data) == SecondToLast(split(data, VIOLATOR_DESC_END))

\* Number of bytes os.read(fd, MAX_VIOLATOR_LINE) returns
ReadLen == IF Len(pipe) < MAX_VIOLATOR_LINE THEN Len(pipe) ELSE MAX_VIOLATOR_LINE

\* self.last_violator = self._get_last_violator(read); return self.last_violator
\* (cached: the caller's last_violator, dec: the decoding of the bytes read,
\* rest: the bytes left in the pipe)
CacheRead(cached, dec, rest) ==
    IF dec.exc # None
    THEN [exc |-> dec.exc, ret |-> <<>>, cache |-> cached, pipe |-> rest,
          didRead |-> TRUE]
    ELSE [exc |-> None, ret |-> dec.val, cache |-> dec.val, pipe |-> rest,
          didRead |-> TRUE]

\* Mutant of get_violator: the poll never reports an event
get_violator_unpolled(p) ==
    [exc |-> None, ret |-> last_violator[p], cache |-> last_violator[p],
     pipe |-> pipe, didRead |-> FALSE]

\* Mutant of get_violator: a poll without an event forgets the cached violator
get_violator_forgetful(p) ==
    IF ready /\ Len(pipe) > 0
    THEN CacheRead(last_violator[p],
                   _get_last_violator(SubSeq(pipe, 1, ReadLen)),
                   SubSeq(pipe, ReadLen + 1, Len(pipe)))
    ELSE [exc |-> None, ret |-> UNDEFINED_VIOLATOR, cache |-> UNDEFINED_VIOLATOR,
          pipe |-> pipe, didRead |-> FALSE]

\* Mutant of get_violator: the "if read:" test is missing
get_violator_eof_decoded(p) ==
    IF ready
    THEN CacheRead(last_violator[p],
                   _get_last_violator(SubSeq(pipe, 1, ReadLen)),
                   SubSeq(pipe, ReadLen + 1, Len(pipe)))
    ELSE [exc |-> None, ret |-> last_violator[p], cache |-> last_violator[p],
          pipe |-> pipe, didRead |-> FALSE]

\* get_violator() in process p: poll the edge-triggered epoll; on an event
\* read at most MAX_VIOLATOR_LINE bytes and, "if read:", decode them and cache
\* the result.  An event with nothing to read is the hang-up of a pipe whose
\* write side is closed: os.read returns the empty string.
get_violator(p) ==
    IF ready /\ Len(pipe) > 0
    THEN CacheRead(last_violator[p],
                   _get_last_violator(SubSeq(pipe, 1, ReadLen)),
                   SubSeq(pipe, ReadLen + 1, Len(pipe)))
    ELSE [exc |-> None, ret |-> last_violator[p], cache |-> last_violator[p],
          pipe |-> pipe, didRead |-> FALSE]

\* The record report_violation hands to the store
ViolationRecord(violator, violation) ==
    [module       |-> violator[3],
     class_name   |-> violator[1],
     method_name  |-> violator[2],
     syscall      |-> violation[1],
     syscall_args |-> violation[2],
     start_time   |-> "time"]

\* The trace line and the insert of report_violation
Forward(line, ins) ==
    [exc   |-> ins.exc,
     vrows |-> ins.vrows,
     out   |-> writeln(stderr, line, VERBOSITY_VERBOSE),
     log   |-> ins.log]

\* Mutant of report_violation: the UNDEFINED_VIOLATOR check is missing
report_violation_unfiltered(violator, violation, accepted) ==
    IF Len(violator) # 3
    THEN [exc |-> "ValueError", vrows |-> ViolationsTable, out |-> stderr, log |-> logged]
    ELSE Forward(<<"CATBOX_VIOLATION", violator[1], violator[2], violation>>,
                 add_violation(ViolationRecord(violator, violation), accepted))

\* report_violation(violator, violation); accepted is the backend's answer
\* to the insert.  The result names the exception that leaves the method.
report_violation(violator, violation, accepted) ==
    IF violator = UNDEFINED_VIOLATOR
    THEN [exc |-> None, vrows |-> ViolationsTable, out |-> stderr, log |-> logged]
    ELSE IF Len(violator) # 3
    THEN \* test_case, method, module = violator
         [exc |-> "ValueError", vrows |-> ViolationsTable, out |-> stderr, log |-> logged]
    ELSE Forward(<<"CATBOX_VIOLATION", violator[1], violator[2], violation>>,
                 add_violation(ViolationRecord(violator, violation), accepted))

\* collector.violations[violator].append(violation) on the defaultdict(list)
DictAppend(d, k, v) ==
    IF k \in DOMAIN d
    THEN [d EXCEPT ![k] = Append(@, v)]
    ELSE [x \in (DOMAIN d) \cup {k} |-> IF x = k THEN <<v>> ELSE d[x]]

\* collect(), after get_violator returned g and report_violation gave r
Reported(g, violation, r) ==
    [exc |-> r.exc, g |-> g, dict |-> DictAppend(violations, g.ret, violation),
     vrows |-> r.vrows, out |-> r.out, log |-> r.log]

\* collect(), after get_violator gave g: its exception leaves the try block
\* before anything else runs
Attributed(g, violation, accepted) ==
    IF g.exc # None
    THEN [exc |-> g.exc, g |-> g, dict |-> violations,
          vrows |-> ViolationsTable, out |-> stderr, log |-> logged]
    ELSE Reported(g, violation, report_violation(g.ret, violation, accepted))

\* The try block of collect()
collect_try(operation, resolved_path, accepted) ==
    Attributed(get_violator("parent"), <<operation, resolved_path>>, accepted)

\* The except clause of collect(): report on sys.stderr, return normally
Except(t, violation) ==
    IF t.exc # None
    THEN [exc |-> None, caught |-> t.exc, g |-> t.g, dict |-> t.dict,
          vrows |-> t.vrows, log |-> t.log,
          out |-> Append(t.out, <<"Error collecting violation data", t.exc, violation>>)]
    ELSE [exc |-> None, caught |-> None, g |-> t.g, dict |-> t.dict,
          vrows |-> t.vrows, log |-> t.log, out |-> t.out]

\* Mutant of collect: no try/except around the body
collect_unguarded(operation, resolved_path, accepted) ==
    collect_try(operation, resolved_path, accepted) @@ [caught |-> None]

\* collect(operation, path, resolved_path)
collect(operation, resolved_path, accepted) ==
    Except(collect_try(operation, resolved_path, accepted), <<operation, resolved_path>>)

-----------------------------------------------------------------------------
(* ViolationReporter.report *)

\* The syscall names of the model in Python's string order
SyscallsSorted == <<"connect", "open">>

\* a < b on syscall names
SyscallLess(a, b) ==
    \E i, j \in DOMAIN SyscallsSorted :
        SyscallsSorted[i] = a /\ SyscallsSorted[j] = b /\ i < j

\* Insert v into list, sorted by syscall, after the entries that are not greater
RECURSIVE InsertBySyscall(_, _)
InsertBySyscall(list, v) ==
    IF list = <<>> THEN <<v>>
    ELSE IF SyscallLess(v[3], Head(list)[3])
         THEN <<v>> \o list
         ELSE <<Head(list)>> \o InsertBySyscall(Tail(list), v)

\* sorted(violations, key=operator.itemgetter(2)): stable
RECURSIVE SortedBySyscall(_)
SortedBySyscall(list) ==
    IF list = <<>> THEN <<>>
    ELSE InsertBySyscall(SortedBySyscall(SubSeq(list, 1, Len(list) - 1)), list[Len(list)])

\* itertools.groupby(..., itemgetter(2)) with sum(violator[3] ...): one
\* (syscall, count) per run of consecutive entries with the same syscall
RECURSIVE GroupBySyscall(_)
GroupBySyscall(list) ==
    IF list = <<>> THEN <<>>
    ELSE LET rest == GroupBySyscall(Tail(list))
         IN  IF rest # <<>> /\ Head(rest)[1] = Head(list)[3]
             THEN << <<Head(list)[3], Head(list)[4] + Head(rest)[2]>> >> \o Tail(rest)
             ELSE << <<Head(list)[3], Head(list)[4]>> >> \o rest

\* Insert c into list, sorted by count, after the entries that are not greater
RECURSIVE InsertByCount(_, _)
InsertByCount(list, c) ==
    IF list = <<>> THEN <<c>>
    ELSE IF c[2] < Head(list)[2]
         THEN <<c>> \o list
         ELSE <<Head(list)>> \o InsertByCount(Tail(list), c)

\* sorted(syscall_violations, key=operator.itemgetter(1)): stable, ascending
RECURSIVE SortedByCount(_)
SortedByCount(list) ==
    IF list = <<>> THEN <<>>
    ELSE InsertByCount(SortedByCount(SubSeq(list, 1, Len(list) - 1)), list[Len(list)])

\* Mutant of get_syscall_count: the final sort by count is missing
get_syscall_count_unsorted(vcounts) == GroupBySyscall(SortedBySyscall(vcounts))

\* get_syscall_count(violations), vcounts being the list violation_counts() returned
get_syscall_count(vcounts) == SortedByCount(GroupBySyscall(SortedBySyscall(vcounts)))

\* Lines are sequences of their tab-separated fields.
TextLine(text) == <<text>>

\* "%s\t%s" % (syscall, count)
SyscallLine(c) == <<c[1], c[2]>>

\* "%s.%s\t%s\t%s" % (class_name, test_method, syscall, count)
GroupLine(v) == << <<v[1], v[2]>>, v[3], v[4] >>

SeparatorLine == TextLine("========================================================================")

NoViolationsLine == TextLine("No unit test violations! \\o/\n")

\* writeln called for each message of msgs, all with the same verbosity
RECURSIVE WriteLines(_, _, _)
WriteLines(out, msgs, verbosity) ==
    IF msgs = <<>> THEN out
    ELSE WriteLines(writeln(out, Head(msgs), verbosity), Tail(msgs), verbosity)

\* The head of every report: an empty line and the separator
ReportHead(out) == WriteLines(out, <<TextLine(""), SeparatorLine>>, VERBOSITY_SILENT)

\* The body of a report with violations, written after the head
ReportBody(out, vcounts, counts) ==
    WriteLines(
        writeln(
            WriteLines(
                WriteLines(out, <<TextLine("VIOLATIONS:"), TextLine("")>>, VERBOSITY_SILENT),
                [i \in DOMAIN counts |-> SyscallLine(counts[i])], VERBOSITY_SILENT),
            TextLine(""), 0),
        [i \in DOMAIN vcounts |-> GroupLine(vcounts[i])], VERBOSITY_SILENT)

\* report(), for the list violation_counts() returned: the output stream after it
report(out, vcounts) ==
    IF Len(vcounts) = 0
    THEN writeln(ReportHead(out), NoViolationsLine, VERBOSITY_SILENT)
    ELSE ReportBody(ReportHead(out), vcounts, get_syscall_count(vcounts))

-----------------------------------------------------------------------------
(* Handlers *)

\* set_violator(test_case_name, method_name, module_path): the bytes written
EncodeViolator(t) == join(<<",">>, t) \o VIOLATOR_DESC_END

\* Mutant of UpdateViolator: the record is written only when the insert succeeded
UpdateViolator_after_insert(t, ins) ==
    /\ pipe' = IF ins.log = logged THEN pipe \o EncodeViolator(t) ELSE pipe
    /\ ready' = TRUE
    /\ TestsTable' = ins.trows
    /\ logged' = ins.log
    /\ outcome' = [op |-> "update_violator", exc |-> ins.exc, ret |-> <<>>,
                   caught |-> None]
    /\ sinceRead' = Append(sinceRead, t)
    /\ everPublished' = everPublished \cup {t}
    /\ nPublished' = nPublished + 1
    /\ UNCHANGED <<store, fs, last_violator, violations, ViolationsTable, stderr,
                   output_verbosity, nEvents>>

\* __update_violator(result): set_violator, then store.add_test (ins)
UpdateViolator(t, ins) ==
    /\ pipe' = pipe \o EncodeViolator(t)
    /\ ready' = TRUE
    /\ TestsTable' = ins.trows
    /\ logged' = ins.log
    /\ outcome' = [op |-> "update_violator", exc |-> ins.exc, ret |-> <<>>,
                   caught |-> None]
    /\ sinceRead' = Append(sinceRead, t)
    /\ everPublished' = everPublished \cup {t}
    /\ nPublished' = nPublished + 1
    /\ UNCHANGED <<store, fs, last_violator, violations, ViolationsTable, stderr,
                   output_verbosity, nEvents>>

\* The four phase-start hooks, run in the child: __update_violator(result)
StartHook(t, accepted) ==
    /\ ~write_closed
    /\ nPublished < MaxPublish
    /\ accepted \/ Len(logged) < MaxFailures
    /\ UpdateViolator(t, add_test([method_name |-> t[2], class_name |-> t[1],
                                   module |-> t[3]], accepted))
    /\ UNCHANGED <<write_closed, lifecycle>>

\* The state after get_violator() gave g in process p
Polled(p, g) ==
    /\ pipe' = g.pipe
    /\ ready' = FALSE
    /\ last_violator' = [last_violator EXCEPT ![p] = g.cache]
    /\ sinceRead' = IF g.didRead THEN <<>> ELSE sinceRead

\* A phase-complete hook, whose get_violator() gave g
Completed(g) ==
    /\ Polled("child", g)
    /\ outcome' = [op |-> "get_violator", exc |-> g.exc, ret |-> g.ret,
                   caught |-> None]
    /\ UNCHANGED <<store, fs, violations, ViolationsTable, TestsTable, stderr, logged,
                   output_verbosity, everPublished, nPublished, nEvents>>

\* The four phase-complete hooks, run in the child: self.collector.get_violator()
CompleteHook ==
    /\ ~write_closed
    /\ Completed(get_violator("child"))
    /\ UNCHANGED <<write_closed, lifecycle>>

\* The state after collect() gave c
Collected(c) ==
    /\ Polled("parent", c.g)
    /\ violations' = c.dict
    /\ ViolationsTable' = c.vrows
    /\ stderr' = c.out
    /\ logged' = c.log
    /\ outcome' = [op |-> "collect", exc |-> c.exc, ret |-> c.g.ret,
                   caught |-> c.caught]
    /\ nEvents' = nEvents + 1
    /\ UNCHANGED <<store, fs, TestsTable, output_verbosity, everPublished, nPublished,
                   write_closed, lifecycle>>

\* The Tracer's violation callback, run in the parent: collect(...)
Collect(operation, resolved_path, accepted) ==
    /\ nEvents < MaxEvents
    /\ accepted \/ Len(logged) < MaxFailures
    /\ Collected(collect(operation, resolved_path, accepted))

\* The state after store.add_violation(record) gave ins
Inserted(ins) ==
    /\ ViolationsTable' = ins.vrows
    /\ logged' = ins.log
    /\ outcome' = [op |-> "add_violation", exc |-> ins.exc, ret |-> <<>>,
                   caught |-> None]
    /\ UNCHANGED <<store, fs, pipe, ready, last_violator, violations, TestsTable,
                   stderr, output_verbosity, sinceRead, everPublished, nPublished,
                   nEvents, write_closed, lifecycle>>

\* store.add_violation(record) called on the store directly
AddViolation(record, accepted) ==
    /\ Len(ViolationsTable) + Len(logged) < MaxRows
    /\ Inserted(add_violation(record, accepted))

\* store.violation_counts()
ViolationCounts ==
    /\ \E order \in GroupOrders(ViolationsTable) :
           outcome' = [op |-> "violation_counts", exc |-> None,
                       ret |-> violation_counts(ViolationsTable, order),
                       caught |-> None]
    /\ UNCHANGED <<store, fs, pipe, ready, last_violator, violations,
                   ViolationsTable, TestsTable, stderr, logged, output_verbosity,
                   sinceRead, everPublished, nPublished, nEvents, write_closed,
                   lifecycle>>

\* The child process terminates and its write end of the pipe is closed.  hup:
\* it was the last open write end, so the epoll registration reports a hang-up.
ChildExit(hup) ==
    /\ ~write_closed
    /\ write_closed' = TRUE
    /\ ready' = (ready \/ hup)
    /\ outcome' = [op |-> "exit", exc |-> None, ret |-> <<>>, caught |-> None]
    /\ UNCHANGED <<store, fs, pipe, last_violator, violations, ViolationsTable,
                   TestsTable, stderr, logged, output_verbosity, sinceRead,
                   everPublished, nPublished, nEvents, lifecycle>>

\* The state after report() ran on the list violation_counts() returned
ReportWritten(vcounts) ==
    /\ stderr' = report(stderr, vcounts)
    /\ outcome' = [op |-> "report", exc |-> None, ret |-> vcounts, caught |-> None]
    /\ UNCHANGED <<store, fs, pipe, ready, last_violator, violations,
                   ViolationsTable, TestsTable, logged, output_verbosity,
                   sinceRead, everPublished, nPublished, nEvents, write_closed,
                   lifecycle>>

\* ViolationReporter.report(), the framework's final call
Report ==
    /\ outcome.op # "report"
    /\ \E order \in GroupOrders(ViolationsTable) :
           ReportWritten(violation_counts(ViolationsTable, order))

\* ViolationStore(options) built: the state after prepare_test_program
Prepared(options, built) ==
    /\ output_verbosity' = options.verbosity
    /\ store' = built.store
    /\ fs' = built.fs
    /\ outcome' = [op |-> "prepare_test_program", exc |-> built.exc,
                   ret |-> <<>>, caught |-> None, options |-> options]

\* prepare_test_program(options, program)
PrepareTestProgram(options) ==
    /\ outcome.op = "start"
    /\ IF options.catbox_violations
       THEN Prepared(options, ViolationStoreInit(options, fs))
       ELSE /\ outcome' = [op |-> "prepare_test_program", exc |-> None,
                           ret |-> <<>>, caught |-> None, options |-> options]
            /\ UNCHANGED <<store, fs, output_verbosity>>
    /\ UNCHANGED <<pipe, ready, last_violator, violations, ViolationsTable,
                   TestsTable, stderr, logged, sinceRead, everPublished, nPublished,
                   nEvents, write_closed, lifecycle>>

\* The host framework has fired no hook yet
NotStarted == [pos |-> 0, failed |-> FALSE]

-----------------------------------------------------------------------------
(* The run: prepare_test_program has built the collector and its store *)

Init ==
    /\ \E v \in {VERBOSITY_NORMAL, VERBOSITY_VERBOSE} :
          LET built == ViolationStoreInit([DefaultOptions EXCEPT !.verbosity = v], {})
          IN  /\ store = built.store
              /\ fs = built.fs
              /\ output_verbosity = v
    /\ pipe = <<>>
    /\ ready = FALSE
    /\ last_violator = [p \in Procs |-> UNDEFINED_VIOLATOR]
    /\ violations = <<>>
    /\ ViolationsTable = <<>>
    /\ TestsTable = <<>>
    /\ stderr = <<>>
    /\ logged = <<>>
    /\ outcome = [op |-> "init", exc |-> None, ret |-> <<>>, caught |-> None]
    /\ sinceRead = <<>>
    /\ everPublished = {}
    /\ nPublished = 0
    /\ nEvents = 0
    /\ write_closed = FALSE
    /\ lifecycle = NotStarted

Next ==
    \/ \E t \in TestIdentities, accepted \in BOOLEAN : StartHook(t, accepted)
    \/ CompleteHook
    \/ \E operation \in Operations, resolved_path \in ResolvedPaths, accepted \in BOOLEAN :
           Collect(operation, resolved_path, accepted)

Spec == Init /\ [][Next]_vars


-----------------------------------------------------------------------------
(* The hooks fired in the host framework's order, on one collector *)

\* The hooks of one test, in order
TestHooks == <<"test_setup_start", "test_setup_complete", "test_start",
               "test_complete", "test_teardown_start", "test_teardown_complete">>

\* Number of hooks of a run of one test case with MaxTests tests
LastHook == 2 + Len(TestHooks) * MaxTests

\* The hook the framework fires next ("done" after test_case_complete)
NextHook ==
    IF lifecycle.pos = 0 THEN "test_case_start"
    ELSE IF lifecycle.pos = LastHook - 1 THEN "test_case_complete"
    ELSE IF lifecycle.pos >= LastHook THEN "done"
    ELSE TestHooks[((lifecycle.pos - 1) % Len(TestHooks)) + 1]

\* A phase-start hook fired by the framework: __update_violator(result)
HookStart(hook, t, accepted) ==
    /\ NextHook = hook
    /\ accepted \/ Len(logged) < MaxFailures
    /\ UpdateViolator(t, add_test([method_name |-> t[2], class_name |-> t[1],
                                   module |-> t[3]], accepted))
    /\ lifecycle' = [lifecycle EXCEPT !.pos = @ + 1]
    /\ UNCHANGED write_closed

\* A phase-complete hook fired by the framework, whose get_violator() gave g;
\* an exception leaves the hook
HookCompleted(g) ==
    /\ Completed(g)
    /\ lifecycle' = [pos |-> lifecycle.pos + 1, failed |-> lifecycle.failed \/ g.exc # None]
    /\ UNCHANGED write_closed

HookComplete(hook) ==
    /\ NextHook = hook
    /\ HookCompleted(get_violator("child"))

test_case_start(t, accepted) == HookStart("test_case_start", t, accepted)

test_case_complete == HookComplete("test_case_complete")

test_start(t, accepted) == HookStart("test_start", t, accepted)

test_complete == HookComplete("test_complete")

test_setup_start(t, accepted) == HookStart("test_setup_start", t, accepted)

test_setup_complete == HookComplete("test_setup_complete")

test_teardown_start(t, accepted) == HookStart("test_teardown_start", t, accepted)

test_teardown_complete == HookComplete("test_teardown_complete")

NextLifecycle ==
    \/ \E t \in TestIdentities, accepted \in BOOLEAN : test_case_start(t, accepted)
    \/ test_case_complete
    \/ \E t \in TestIdentities, accepted \in BOOLEAN : test_start(t, accepted)
    \/ test_complete
    \/ \E t \in TestIdentities, accepted \in BOOLEAN : test_setup_start(t, accepted)
    \/ test_setup_complete
    \/ \E t \in TestIdentities, accepted \in BOOLEAN : test_teardown_start(t, accepted)
    \/ test_teardown_complete

SpecLifecycle == Init /\ [][NextLifecycle]_vars

-----------------------------------------------------------------------------
(* The encoding of violators: hooks given identities with unusual characters *)

\* Module paths: plain, ending in '#', ending in the first four characters of
\* the sentinel, holding a ',', holding the sentinel
CodecPaths ==
    { <<"p">>,
      <<"p", "#">>,
      <<"p", "#", "E", "N", "D">>,
      <<"p", ",", "q">>,
      <<"p", "#", "E", "N", "D", "#", "q">> }

CodecIdentities ==
    { << <<"A">>, <<"m">>, path >> : path \in CodecPaths }
    \cup { << <<"A", "#", "E", "N", "D">>, <<"m">>, <<"p">> >>, TestLong }

NextCodec ==
    \/ \E t \in CodecIdentities, accepted \in BOOLEAN : StartHook(t, accepted)
    \/ CompleteHook

SpecCodec == Init /\ [][NextCodec]_vars

-----------------------------------------------------------------------------
(* The run, with the termination of the child *)

CloseIdentities == {TestA, TestBig}

NextClose ==
    \/ \E t \in CloseIdentities, accepted \in BOOLEAN : StartHook(t, accepted)
    \/ CompleteHook
    \/ \E operation \in Operations, resolved_path \in ResolvedPaths, accepted \in BOOLEAN :
           Collect(operation, resolved_path, accepted)
    \/ \E hup \in BOOLEAN : ChildExit(hup)

SpecClose == Init /\ [][NextClose]_vars

-----------------------------------------------------------------------------
(* Start of the program: the store is not built yet *)

InitConfig ==
    /\ store = NoStore
    /\ fs \in SUBSET DbFiles
    /\ output_verbosity = VERBOSITY_NORMAL
    /\ pipe = <<>>
    /\ ready = FALSE
    /\ last_violator = [p \in Procs |-> UNDEFINED_VIOLATOR]
    /\ violations = <<>>
    /\ ViolationsTable = <<>>
    /\ TestsTable = <<>>
    /\ stderr = <<>>
    /\ logged = <<>>
    /\ outcome = [op |-> "start", exc |-> None, ret |-> <<>>, caught |-> None]
    /\ sinceRead = <<>>
    /\ everPublished = {}
    /\ nPublished = 0
    /\ nEvents = 0
    /\ write_closed = FALSE
    /\ lifecycle = NotStarted

NextConfig == \E options \in AllOptions : PrepareTestProgram(options)

SpecConfig == InitConfig /\ [][NextConfig]_vars

-----------------------------------------------------------------------------
(* The store driven through add_violation and violation_counts *)

\* Records report_violation builds: tests A.m and B.n, two syscalls; the second
\* record differs from the first only in module and syscall_args
StoreRecords ==
    { [module |-> <<"p">>, class_name |-> <<"A">>, method_name |-> <<"m">>,
       syscall |-> "open", syscall_args |-> "/etc/passwd", start_time |-> "time"],
      [module |-> <<"q">>, class_name |-> <<"A">>, method_name |-> <<"m">>,
       syscall |-> "open", syscall_args |-> "/tmp/f", start_time |-> "time"],
      [module |-> <<"p">>, class_name |-> <<"A">>, method_name |-> <<"m">>,
       syscall |-> "connect", syscall_args |-> "10.0.0.1", start_time |-> "time"],
      [module |-> <<"q">>, class_name |-> <<"B">>, method_name |-> <<"n">>,
       syscall |-> "connect", syscall_args |-> "10.0.0.1", start_time |-> "time"] }

\* report() is the last call of a run
NextStore ==
    \/ /\ outcome.op # "report"
       /\ \E record \in StoreRecords, accepted \in BOOLEAN : AddViolation(record, accepted)
    \/ /\ outcome.op # "report"
       /\ ViolationCounts
    \/ Report

SpecStore == Init /\ [][NextStore]_vars

-----------------------------------------------------------------------------
(* Properties of the attribution channel and the violator cache *)

RECURSIVE EncodeAll(_)
EncodeAll(ts) ==
    IF ts = <<>> THEN <<>> ELSE EncodeViolator(Head(ts)) \o EncodeAll(Tail(ts))

Last(ts) == ts[Len(ts)]

\* The bytes the next read returns hold no sentinel
NoCompleteRecord == FindFrom(SubSeq(pipe, 1, ReadLen), VIOLATOR_DESC_END, 1) = 0

\* C1: after set_violator(v1), ..., set_violator(vn) with no read in between
\* (the pipe holds exactly these n records), one get_violator() returns vn and
\* caches vn.
C1_MostRecentWins ==
    [][ ( /\ sinceRead # <<>>
          /\ pipe = EncodeAll(sinceRead)
          /\ outcome'.op = "get_violator" )
        => ( /\ outcome'.exc = None
             /\ outcome'.ret = Last(sinceRead)
             /\ last_violator'["child"] = Last(sinceRead) ) ]_vars

\* C2: a violation event handled while the cached violator is
\* UNDEFINED_VIOLATOR adds no row, and no row of the violations table carries
\* the UNDEFINED (class_name, method_name, module).
C2_UndefinedNeverPersisted ==
    /\ [][ ( /\ outcome'.op = "collect"
             /\ nEvents' = nEvents + 1
             /\ last_violator'["parent"] = UNDEFINED_VIOLATOR )
           => ViolationsTable' = ViolationsTable ]_vars
    /\ [](\A i \in DOMAIN ViolationsTable :
             <<ViolationsTable[i].class_name, ViolationsTable[i].method_name,
               ViolationsTable[i].module>> # UNDEFINED_VIOLATOR)

\* An event was handled with the UNDEFINED violator: collect() recorded it in
\* collector.violations and the table stayed empty
C2_Witness ==
    /\ outcome.op = "collect"
    /\ outcome.ret = UNDEFINED_VIOLATOR
    /\ UNDEFINED_VIOLATOR \in DOMAIN violations
    /\ nPublished > 0
    /\ ViolationsTable = <<>>

\* C3: once a published (c, m, mod) is the cached violator, each violation
\* callback collect(op, path, resolved_path) adds exactly one row
\* (c, m, mod, op, resolved_path) to the violations table (stated for the
\* callbacks whose insert the backend accepts).
C3_OneRowPerViolation ==
    [][ ( /\ outcome'.op = "collect"
          /\ nEvents' = nEvents + 1
          /\ logged' = logged
          /\ last_violator'["parent"] # UNDEFINED_VIOLATOR
          /\ last_violator'["parent"] \in everPublished )
        => ( /\ Len(ViolationsTable') = Len(ViolationsTable) + 1
             /\ SubSeq(ViolationsTable', 1, Len(ViolationsTable)) = ViolationsTable
             /\ LET row == ViolationsTable'[Len(ViolationsTable')]
                    v   == last_violator'["parent"]
                IN  /\ row.class_name = v[1]
                    /\ row.method_name = v[2]
                    /\ row.module = v[3]
                    /\ row.syscall \in Operations
                    /\ row.syscall_args \in ResolvedPaths ) ]_vars

\* C4: every cached last violator is UNDEFINED_VIOLATOR or a three-field
\* triple that was published.
C4_CacheWellFormed ==
    \A p \in Procs :
        \/ last_violator[p] = UNDEFINED_VIOLATOR
        \/ /\ Len(last_violator[p]) = 3
           /\ last_violator[p] \in everPublished

\* C5: when the bytes get_violator() reads hold no complete record, it returns
\* the previously cached violator, leaves the cache unchanged and does not raise.
C5_NoRecordIsNoData ==
    [][ ( /\ outcome'.op = "get_violator"
          /\ ready /\ Len(pipe) > 0
          /\ NoCompleteRecord )
        => ( /\ outcome'.exc = None
             /\ outcome'.ret = last_violator["child"]
             /\ last_violator' = last_violator ) ]_vars

\* C10: collect() returns normally for every event; when get_violator, the
\* unpacking of the violator or the store failed, a diagnostic was written and
\* no row was added.
C10_CollectNeverRaises ==
    [][ ( /\ outcome'.op = "collect"
          /\ nEvents' = nEvents + 1 )
        => ( /\ outcome'.exc = None
             /\ (outcome'.caught # None \/ logged' # logged)
                   => ( /\ Len(stderr') + Len(logged') > Len(stderr) + Len(logged)
                        /\ ViolationsTable' = ViolationsTable )
             /\ outcome'.caught # None => Len(stderr') = Len(stderr) + 1 ) ]_vars

\* collect() caught the ValueError of unpacking a violator of the wrong arity
C10_Witness ==
    /\ outcome.op = "collect"
    /\ outcome.caught = "ValueError"
    /\ outcome.exc = None
    /\ stderr # <<>>

-----------------------------------------------------------------------------
(* Properties of the store's aggregation query *)

RECURSIVE SumCounts(_)
SumCounts(res) == IF res = <<>> THEN 0 ELSE Head(res)[4] + SumCounts(Tail(res))

\* C6: violation_counts() returns exactly one group per distinct
\* (class_name, method_name, syscall) of the violations table, each with the
\* number of rows of that triple; the counts sum to the number of rows.
C6_OneGroupPerTriple ==
    outcome.op = "violation_counts" =>
        LET res == outcome.ret
            T   == ViolationsTable
        IN  /\ \A i \in DOMAIN T : \E j \in DOMAIN res :
                   /\ res[j][1] = T[i].class_name
                   /\ res[j][2] = T[i].method_name
                   /\ res[j][3] = T[i].syscall
            /\ \A j, k \in DOMAIN res :
                   (res[j][1] = res[k][1] /\ res[j][2] = res[k][2] /\ res[j][3] = res[k][3])
                       => j = k
            /\ \A j \in DOMAIN res :
                   /\ res[j][4] >= 1
                   /\ res[j][4] = Cardinality({i \in DOMAIN T :
                                                  /\ T[i].class_name = res[j][1]
                                                  /\ T[i].method_name = res[j][2]
                                                  /\ T[i].syscall = res[j][3]})
            /\ SumCounts(res) = Len(T)

\* The query ran on a table with several groups, one of them holding rows
\* that differ in module and syscall_args
C6_Witness ==
    /\ outcome.op = "violation_counts"
    /\ Len(outcome.ret) >= 2
    /\ \E i, j \in DOMAIN ViolationsTable :
           /\ ViolationsTable[i].class_name = ViolationsTable[j].class_name
           /\ ViolationsTable[i].method_name = ViolationsTable[j].method_name
           /\ ViolationsTable[i].syscall = ViolationsTable[j].syscall
           /\ ViolationsTable[i].module # ViolationsTable[j].module
           /\ ViolationsTable[i].syscall_args # ViolationsTable[j].syscall_args

\* C7: the list violation_counts() returns is ordered by count descending.
C7_CountsDescending ==
    outcome.op = "violation_counts" =>
        \A j \in 1..(Len(outcome.ret) - 1) : outcome.ret[j][4] >= outcome.ret[j + 1][4]

\* The query returned groups of different counts, and the row inserted first
\* belongs to the group returned last
C7_Witness ==
    /\ outcome.op = "violation_counts"
    /\ Len(outcome.ret) >= 2
    /\ outcome.ret[1][4] > outcome.ret[Len(outcome.ret)][4]
    /\ ViolationsTable[1].class_name = outcome.ret[Len(outcome.ret)][1]
    /\ ViolationsTable[1].syscall = outcome.ret[Len(outcome.ret)][3]

-----------------------------------------------------------------------------
(* Properties of the store's construction *)

\* C8: constructing the store on an in-memory sqlite URL ('sqlite://',
\* 'sqlite:///:memory:') raises before connect(): no engine, no tables, no
\* file deleted.
C8_InMemoryRejected ==
    [][ ( /\ outcome'.op = "prepare_test_program"
          /\ outcome'.options.catbox_violations
          /\ outcome'.options.violation_dburl \in {UrlBare, UrlMemory} )
        => ( /\ outcome'.exc # None
             /\ store' = NoStore
             /\ fs' = fs ) ]_vars

\* C9: with both a URL and a config file the construction fails; with only a
\* config file the store is built on the backend the file describes.
C9_UrlAndConfigExclusive ==
    [][ ( /\ outcome'.op = "prepare_test_program"
          /\ outcome'.options.catbox_violations )
        => ( /\ ( /\ outcome'.options.violation_dburl # NoUrl
                  /\ outcome'.options.violation_dbconfig # None )
                => (outcome'.exc # None /\ store' = NoStore)
             /\ ( /\ outcome'.options.violation_dburl = NoUrl
                  /\ outcome'.options.violation_dbconfig # None )
                => (outcome'.exc = None /\ store'.constructed /\ store'.engine = ConfigUrl)
           ) ]_vars

-----------------------------------------------------------------------------
(* Properties of the tolerant inserts and of the lifecycle hooks *)

\* C11: add_test() and add_violation() return normally when the insert fails;
\* the failing record is not stored and the stored rows are unchanged; after a
\* failure a later add_test still inserts its row.
C11_InsertFailuresTolerated ==
    /\ [][ ( /\ outcome'.op = "update_violator"
             /\ nPublished' = nPublished + 1 )
           => ( /\ outcome'.exc = None
                /\ ViolationsTable' = ViolationsTable
                /\ \/ /\ logged' = logged
                      /\ Len(TestsTable') = Len(TestsTable) + 1
                      /\ SubSeq(TestsTable', 1, Len(TestsTable)) = TestsTable
                   \/ /\ Len(logged') = Len(logged) + 1
                      /\ TestsTable' = TestsTable ) ]_vars
    /\ [][ ( /\ outcome'.op = "collect"
             /\ nEvents' = nEvents + 1
             /\ logged' # logged )
           => ( /\ outcome'.exc = None
                /\ outcome'.caught = None
                /\ Len(logged') = Len(logged) + 1
                /\ ViolationsTable' = ViolationsTable
                /\ TestsTable' = TestsTable ) ]_vars
    /\ []( (logged # <<>> /\ nPublished < MaxPublish)
           => ENABLED ( /\ StartHook(TestA, TRUE)
                        /\ Len(TestsTable') = Len(TestsTable) + 1 ) )

\* An insert of add_violation failed after a violation row had been stored,
\* and a later add_test stored its row
C11_Witness ==
    /\ outcome.op = "update_violator"
    /\ logged = <<"Exception inserting violations">>
    /\ Len(ViolationsTable) = 1
    /\ Len(TestsTable) = nPublished
    /\ nEvents = 2

\* C14: a phase-start hook (test_case_start, test_setup_start, test_start,
\* test_teardown_start: each is __update_violator(result)) appends exactly one
\* record "class,method,module#END#" of its test identity to the channel and
\* adds exactly one tests row with that identity; when add_test fails the
\* record has been published all the same.
C14_StartHookPublishesAndRecords ==
    [][ ( /\ outcome'.op = "update_violator"
          /\ nPublished' = nPublished + 1 )
        => LET t == sinceRead'[Len(sinceRead')]
           IN  /\ t \in TestIdentities
               /\ pipe' = pipe \o t[1] \o <<",">> \o t[2] \o <<",">> \o t[3]
                               \o <<"#", "E", "N", "D", "#">>
               /\ ViolationsTable' = ViolationsTable
               /\ \/ /\ logged' = logged
                     /\ Len(TestsTable') = Len(TestsTable) + 1
                     /\ SubSeq(TestsTable', 1, Len(TestsTable)) = TestsTable
                     /\ TestsTable'[Len(TestsTable')].class_name = t[1]
                     /\ TestsTable'[Len(TestsTable')].method_name = t[2]
                     /\ TestsTable'[Len(TestsTable')].module = t[3]
                  \/ /\ logged' # logged
                     /\ TestsTable' = TestsTable ]_vars

\* A start hook whose add_test failed: no tests row, the record is in the channel
C14_Witness ==
    /\ outcome.op = "update_violator"
    /\ logged = <<"Exception inserting testinfo">>
    /\ TestsTable = <<>>
    /\ pipe = <<"A", ",", "m", ",", "p", "#", "E", "N", "D", "#">>

\* C15: a phase-complete hook only refreshes the cache: it returns normally
\* whatever the channel holds, writes nothing to the channel (what is left is
\* a suffix of what was there) and leaves both tables unchanged.
C15_CompleteHookOnlyRefreshes ==
    [][ outcome'.op = "get_violator"
        => ( /\ outcome'.exc = None
             /\ Len(pipe') <= Len(pipe)
             /\ pipe' = SubSeq(pipe, Len(pipe) - Len(pipe') + 1, Len(pipe))
             /\ TestsTable' = TestsTable
             /\ ViolationsTable' = ViolationsTable ) ]_vars

\* C16: get_violator() drains the channel: when it returns, no unread bytes
\* remain (the hooks and callbacks of the model run one at a time, so no
\* publish is concurrent with it).
C16_ReadDrainsChannel ==
    [][ ( /\ outcome'.op \in {"get_violator", "collect"}
          /\ (outcome'.op = "collect" => nEvents' = nEvents + 1)
          /\ outcome'.exc = None
          /\ outcome'.caught = None )
        => pipe' = <<>> ]_vars

\* C17, as stated: after the write side has been closed, every
\* get_violator() call (made by collect() in the parent) returns normally
\* with the previously cached violator and does not change the cache.
C17_ClosedIsNoData ==
    [][ ( /\ write_closed
          /\ outcome'.op = "collect"
          /\ nEvents' = nEvents + 1 )
        => ( /\ outcome'.caught # "IndexError"
             /\ outcome'.ret = last_violator["parent"]
             /\ last_violator' = last_violator ) ]_vars

\* C17, amended: after the write side has been closed, a get_violator() call
\* that finds no unread bytes in the channel returns normally with the
\* previously cached violator and does not change the cache.
C17_ClosedEmptyIsNoData ==
    [][ ( /\ write_closed
          /\ pipe = <<>>
          /\ outcome'.op = "collect"
          /\ nEvents' = nEvents + 1 )
        => ( /\ outcome'.caught # "IndexError"
             /\ outcome'.ret = last_violator["parent"]
             /\ last_violator' = last_violator ) ]_vars

\* One record was published; the first callback read it, the second one ran
\* after the close on an empty channel and was attributed to the cached violator
C17_Witness ==
    /\ write_closed
    /\ outcome.op = "collect"
    /\ pipe = <<>>
    /\ nPublished = 1
    /\ nEvents = 2
    /\ Len(ViolationsTable) = 2
    /\ last_violator["parent"] = TestA

\* C18: the cache starts as UNDEFINED_VIOLATOR and never returns to it: while
\* nothing was published every cache is UNDEFINED, a get_violator() that
\* reads nothing with an UNDEFINED cache returns UNDEFINED, a cache that is not
\* UNDEFINED never becomes UNDEFINED again, and a get_violator() of a process
\* whose cache is not UNDEFINED does not return UNDEFINED.
C18_UndefinedOnlyAtStart ==
    /\ [](everPublished = {} => \A p \in Procs : last_violator[p] = UNDEFINED_VIOLATOR)
    /\ [][ \A p \in Procs : last_violator[p] # UNDEFINED_VIOLATOR
                                => last_violator'[p] # UNDEFINED_VIOLATOR ]_vars
    /\ [][ ( /\ outcome'.op = "get_violator"
             /\ outcome'.exc = None )
           => ( /\ last_violator["child"] # UNDEFINED_VIOLATOR
                      => outcome'.ret # UNDEFINED_VIOLATOR
                /\ (last_violator["child"] = UNDEFINED_VIOLATOR /\ pipe' = pipe)
                      => outcome'.ret = UNDEFINED_VIOLATOR ) ]_vars
    /\ [][ ( /\ outcome'.op = "collect"
             /\ nEvents' = nEvents + 1
             /\ outcome'.caught # "IndexError" )
           => ( /\ last_violator["parent"] # UNDEFINED_VIOLATOR
                      => outcome'.ret # UNDEFINED_VIOLATOR
                /\ (last_violator["parent"] = UNDEFINED_VIOLATOR /\ pipe' = pipe)
                      => outcome'.ret = UNDEFINED_VIOLATOR ) ]_vars

\* One record was published; the first callback decoded it and the second one,
\* polling an empty channel, was attributed to the same violator
C18_Witness ==
    /\ ~write_closed
    /\ outcome.op = "collect"
    /\ outcome.ret = TestA
    /\ nPublished = 1
    /\ nEvents = 2
    /\ Len(ViolationsTable) = 2

\* The unread records of the channel: every write ends with the sentinel, so
\* each sentinel left in the pipe ends one record (whole, or the tail of one)
UnreadRecords == Len(split(pipe, VIOLATOR_DESC_END)) - 1

\* Length of the longest record published so far
LongestRecord ==
    IF everPublished = {} THEN 0
    ELSE LET L == {Len(t[1]) + Len(t[2]) + Len(t[3]) + 2 + Len(VIOLATOR_DESC_END) :
                      t \in everPublished}
         IN  CHOOSE x \in L : \A y \in L : y <= x

\* C19: with the hooks fired in the framework's order on one collector, as
\* long as no complete hook's get_violator() has raised, the channel holds at
\* most two unread records and at most two record lengths of pending bytes.
C19_AtMostTwoUnread ==
    (~lifecycle.failed) => ( /\ UnreadRecords <= 2
                             /\ Len(pipe) <= 2 * LongestRecord )

\* test_start has published while the tail of an earlier record, cut by the
\* 1024-byte read of test_setup_complete, was still in the channel
C19_Witness ==
    /\ lifecycle.pos = 4
    /\ ~lifecycle.failed
    /\ UnreadRecords = 2
    /\ Len(pipe) > MAX_VIOLATOR_LINE

\* No field of t holds the field delimiter or the sentinel
DelimiterFree(t) ==
    \A i \in 1..3 : /\ FindFrom(t[i], <<",">>, 1) = 0
                     /\ FindFrom(t[i], VIOLATOR_DESC_END, 1) = 0

\* C20: for a triple v whose fields hold neither ',' nor '#END#' and whose
\* record is at most 1024 bytes, set_violator(v) on an empty channel followed
\* by get_violator() returns exactly the 3-tuple v.
C20_RoundTrip ==
    [][ ( /\ Len(sinceRead) = 1
          /\ DelimiterFree(sinceRead[1])
          /\ pipe = sinceRead[1][1] \o <<",">> \o sinceRead[1][2] \o <<",">>
                        \o sinceRead[1][3] \o <<"#", "E", "N", "D", "#">>
          /\ Len(pipe) <= MAX_VIOLATOR_LINE
          /\ outcome'.op = "get_violator" )
        => ( /\ outcome'.exc = None
             /\ Len(outcome'.ret) = 3
             /\ outcome'.ret = sinceRead[1] ) ]_vars

-----------------------------------------------------------------------------
(* Properties of the report *)

\* The lines a step added to the output stream
Added(before, after) == SubSeq(after, Len(before) + 1, Len(after))

\* C12: when violation_counts() is empty, report() writes exactly one line,
\* the 'no violations' success line, and nothing else.
C12_OnlySuccessLine ==
    [][ ( /\ outcome'.op = "report"
          /\ outcome'.ret = <<>> )
        => Added(stderr, stderr') = <<NoViolationsLine>> ]_vars

\* The syscalls of a list of groups, and the summed count of one of them
SyscallsOf(res) == {res[i][3] : i \in DOMAIN res}

RECURSIVE SumOfSyscall(_, _)
SumOfSyscall(res, syscall) ==
    IF res = <<>> THEN 0
    ELSE (IF Head(res)[3] = syscall THEN Head(res)[4] ELSE 0)
         + SumOfSyscall(Tail(res), syscall)

\* The data lines of a report: the lines with more than one field
RECURSIVE DataLines(_)
DataLines(lines) ==
    IF lines = <<>> THEN <<>>
    ELSE (IF Len(Head(lines)) > 1 THEN <<Head(lines)>> ELSE <<>>) \o DataLines(Tail(lines))

\* C13: when violation_counts() is non-empty, the data lines of report() are
\* first one line per distinct syscall with the sum of the counts of its
\* groups, ascending by that sum, then one line per group in the order
\* violation_counts() returned them; each syscall and each group once.
C13_SyscallTotalsThenGroups ==
    [][ ( /\ outcome'.op = "report"
          /\ outcome'.ret # <<>> )
        => LET res  == outcome'.ret
               data == DataLines(Added(stderr, stderr'))
               n    == Cardinality(SyscallsOf(res))
           IN  /\ Len(data) = n + Len(res)
               /\ \A k \in 1..n :
                      /\ Len(data[k]) = 2
                      /\ data[k][1] \in SyscallsOf(res)
                      /\ data[k][2] = SumOfSyscall(res, data[k][1])
               /\ \A k, l \in 1..n : data[k][1] = data[l][1] => k = l
               /\ \A k \in 1..(n - 1) : data[k][2] <= data[k + 1][2]
               /\ \A k \in 1..Len(res) :
                      /\ Len(data[n + k]) = 3
                      /\ data[n + k] = << <<res[k][1], res[k][2]>>, res[k][3], res[k][4] >>
        ]_vars

\* A report of three groups: the syscall with two groups has the larger sum
\* and sorts first by name, and its line comes last among the totals
C13_Witness ==
    /\ outcome.op = "report"
    /\ Len(outcome.ret) = 3
    /\ SumOfSyscall(outcome.ret, "connect") = 3
    /\ SumOfSyscall(outcome.ret, "open") = 1
    /\ Len(stderr) = 10
    /\ stderr[6] = <<"connect", 3>>

=============================================================================
